---- MODULE Spec2Model ----
(***************************************************************************)
(* nano_tree::KdTree (src/src/nano_tree/kd_tree.hpp): construction of the  *)
(* tree by SplitIndices and the three searches (nearest, k nearest,        *)
(* radius) that share the recursive traversal KdTree::SearchNn.            *)
(*                                                                         *)
(* Recursion is modelled by explicit call stacks: `stack` holds the        *)
(* SplitIndices activations, `tstack` the SearchNn activations. C++        *)
(* zero-based positions i are kept as they are; a std::vector is a TLA+    *)
(* sequence read through At(vec, i) == vec[i + 1].                         *)
(***************************************************************************)
EXTENDS Integers, Sequences, FiniteSets, TLC

\* ------------------------------------------------------------------ bounds
MaxN == 4        \* most points in the point set
MaxCoord == 1    \* a point's coordinates are 0..MaxCoord
MaxQuery == 2    \* a query point's coordinates are 0..MaxQuery
MaxLeaf == 2     \* max_leaf_size is 0..MaxLeaf
MaxK == 5        \* k is 0..MaxK
MaxRadius == 3   \* the squared radius is 0..MaxRadius
MaxNodes == 9    \* nodes the arena hands out before the model stops a build

\* ------------------------------------------------------- program constants
Dims == 2                 \* the instantiation's dimension count
ScalarMax == 1000000      \* std::numeric_limits<Scalar>::max()
NullPtr == 0              \* nullptr; node pointers are 1..Len(nodes_)
Uninit == -1              \* a member not yet assigned

VARIABLES
  points_,        \* the point set: a sequence of points, identifiers 0..N-1
  max_leaf_size,  \* the constructor's argument
  nodes_,         \* the node arena, in allocation order
  indices_,       \* the index permutation
  root_,          \* the root node pointer
  stack,          \* SplitIndices activations, innermost last
  ret,            \* the value the last finished SplitIndices returned
  phase,          \* "new" | "building" | "built" | "aborted" | "query" | "done" | "ub"
  p,              \* the query point
  visitor,        \* the accumulator of the running query
  knn,            \* the caller's vector handed to SearchKnn
  n,              \* the caller's vector handed to SearchRadius
  tstack,         \* SearchNn activations, innermost last
  result,         \* what SearchNn(p) returned
  report,         \* the last leaf iteration's call of the visitor, if it made one
  pruned          \* the last branch decision, if it skipped the other child

vars == <<points_, max_leaf_size, nodes_, indices_, root_, stack, ret, phase,
          p, visitor, knn, n, tstack, result, report, pruned>>

buildVars == <<points_, max_leaf_size, nodes_, indices_, root_, stack, ret>>
queryVars == <<p, visitor, knn, n, tstack, result, report, pruned>>

None == [none |-> TRUE]

\* ----------------------------------------------------------------- helpers
At(vec, i) == vec[i + 1]

Pair(a, b) == [first |-> a, second |-> b]

Point == [1..Dims -> 0..MaxCoord]
QueryPoint == [1..Dims -> 0..MaxQuery]

\* Points::num_points()
N == Len(points_)

\* Points::operator()(idx, dim) and Points::operator()(p, dim)
Coord(idx, dim) == points_[idx + 1][dim + 1]
QCoord(pt, dim) == pt[dim + 1]

RECURSIVE MetricSum(_, _, _)
MetricSum(pt, idx, i) ==
  IF i >= Dims THEN 0
  ELSE LET v == QCoord(pt, i) - Coord(idx, i)
       IN v * v + MetricSum(pt, idx, i + 1)

\* MetricL2::operator()
MetricL2(pt, idx) == MetricSum(pt, idx, 0)

\* -------------------------------------------------------------- the builder
IsBranch(node) == node.left # NullPtr /\ node.right # NullPtr
IsLeaf(node) == node.left = NullPtr /\ node.right = NullPtr

\* std::iota(indices_.begin(), indices_.end(), 0)
Iota(len) == [i \in 1..len |-> i - 1]

\* The comparator handed to std::nth_element.
Comp(a, b, dim) == Coord(a, dim) < Coord(b, dim)

\* std::nth_element(first, nth, last, comp): every rearrangement of
\* [first, last) the standard allows. Nothing before nth is greater than the
\* element at nth, nothing after it is less; the rest is untouched.
NthElement(ind, first, nth, last, dim) ==
  LET range == first..(last - 1)
      perms == {f \in [range -> range] : \A a, b \in range : a # b => f[a] # f[b]}
      apply(f) == [i \in 1..Len(ind) |->
                     IF (i - 1) \in range THEN At(ind, f[i - 1]) ELSE ind[i]]
      ok(r) == /\ \A i \in first..(nth - 1) : ~Comp(At(r, nth), At(r, i), dim)
               /\ \A j \in (nth + 1)..(last - 1) : ~Comp(At(r, j), At(r, nth), dim)
  IN IF nth >= last THEN {ind}
     ELSE {r \in {apply(f) : f \in perms} : ok(r)}

\* Mutant of IsLeafSize: a range one longer than max_leaf_size is still a leaf.
IsLeafSize_OffByOne(size) == size <= max_leaf_size + 1

\* if (size <= max_leaf_size)
IsLeafSize(size) == size <= max_leaf_size

LeftSize(size) == size \div 2

\* Mutant of LeafNode: end_idx is the size, the offset is not added.
LeafNode_EndIsSize(offset, size) ==
  [data |-> [begin_idx |-> offset, end_idx |-> size],
   left |-> NullPtr, right |-> NullPtr]

\* The leaf SplitIndices makes for [offset, offset + size).
LeafNode(offset, size) ==
  [data |-> [begin_idx |-> offset, end_idx |-> offset + size],
   left |-> NullPtr, right |-> NullPtr]

\* Mutant of SplitValue: the split is read at the range's first position.
SplitValue_AtOffset(ind, offset, split, dim) == Coord(At(ind, offset), dim)

\* node->data.branch.split = points(indices[split], dim)
SplitValue(ind, offset, split, dim) == Coord(At(ind, split), dim)

\* The branch SplitIndices fills in before it recurses; its children are not
\* assigned yet.
BranchNode(ind, offset, split, dim) ==
  [data |-> [split |-> SplitValue(ind, offset, split, dim), dim |-> dim],
   left |-> Uninit, right |-> Uninit]

NextDim(dim) == IF (dim + 1) < Dims THEN dim + 1 ELSE 0

Frame(offset, size, dim) ==
  [offset |-> offset, size |-> size, dim |-> dim, node |-> NullPtr, pc |-> "entry"]

Top(s) == s[Len(s)]
Pop(s) == SubSeq(s, 1, Len(s) - 1)
SetTop(s, f) == [s EXCEPT ![Len(s)] = f]

Init ==
  /\ points_ \in UNION {[1..len -> Point] : len \in 0..MaxN}
  /\ max_leaf_size \in 0..MaxLeaf
  /\ nodes_ = <<>>
  /\ indices_ = <<>>
  /\ root_ = Uninit
  /\ stack = <<>>
  /\ ret = NullPtr
  /\ phase = "new"
  /\ p = None
  /\ visitor = None
  /\ knn = <<>>
  /\ n = <<>>
  /\ tstack = <<>>
  /\ result = None
  /\ report = None
  /\ pruned = None

\* KdTree::KdTree, the member initialisers up to the call of MakeTree, and
\* MakeTree up to its call of SplitIndices.
MakeTree ==
  /\ phase = "new"
  /\ phase' = "building"
  /\ indices_' = Iota(N)
  /\ stack' = <<Frame(0, N, 0)>>
  /\ UNCHANGED <<points_, max_leaf_size, nodes_, root_, ret>>
  /\ UNCHANGED queryVars

\* SplitIndices, size <= max_leaf_size: a leaf is allocated and returned.
SplitIndicesLeaf ==
  /\ phase = "building"
  /\ stack # <<>>
  /\ Top(stack).pc = "entry"
  /\ IsLeafSize(Top(stack).size)
  /\ Len(nodes_) < MaxNodes
  /\ nodes_' = Append(nodes_, LeafNode(Top(stack).offset, Top(stack).size))
  /\ ret' = Len(nodes_) + 1
  /\ stack' = Pop(stack)
  /\ UNCHANGED <<points_, max_leaf_size, indices_, root_, phase>>
  /\ UNCHANGED queryVars

\* SplitIndices, size > max_leaf_size: a node is allocated, the range is
\* partitioned around its median and the left recursion is entered.
SplitIndicesBranch ==
  /\ phase = "building"
  /\ stack # <<>>
  /\ Top(stack).pc = "entry"
  /\ ~IsLeafSize(Top(stack).size)
  /\ Len(nodes_) < MaxNodes
  /\ LET f == Top(stack)
         left_size == LeftSize(f.size)
         split == f.offset + left_size
     IN \E r \in NthElement(indices_, f.offset, split, f.offset + f.size, f.dim) :
          /\ indices_' = r
          /\ nodes_' = Append(nodes_, BranchNode(r, f.offset, split, f.dim))
          /\ stack' = Append(
               SetTop(stack, [f EXCEPT !.node = Len(nodes_) + 1, !.pc = "left"]),
               Frame(f.offset, left_size, NextDim(f.dim)))
  /\ UNCHANGED <<points_, max_leaf_size, root_, ret, phase>>
  /\ UNCHANGED queryVars

\* The left recursion returned: node->left is assigned and the right
\* recursion is entered.
SplitIndicesLeft ==
  /\ phase = "building"
  /\ stack # <<>>
  /\ Top(stack).pc = "left"
  /\ LET f == Top(stack)
         left_size == LeftSize(f.size)
         right_size == f.size - left_size
         split == f.offset + left_size
     IN /\ nodes_' = [nodes_ EXCEPT ![f.node].left = ret]
        /\ stack' = Append(SetTop(stack, [f EXCEPT !.pc = "right"]),
                           Frame(split, right_size, NextDim(f.dim)))
  /\ UNCHANGED <<points_, max_leaf_size, indices_, root_, ret, phase>>
  /\ UNCHANGED queryVars

\* The right recursion returned: node->right is assigned and the node is
\* returned.
SplitIndicesRight ==
  /\ phase = "building"
  /\ stack # <<>>
  /\ Top(stack).pc = "right"
  /\ nodes_' = [nodes_ EXCEPT ![Top(stack).node].right = ret]
  /\ ret' = Top(stack).node
  /\ stack' = Pop(stack)
  /\ UNCHANGED <<points_, max_leaf_size, indices_, root_, phase>>
  /\ UNCHANGED queryVars

\* MakeTree returned: root_ is initialised and the constructor's body runs
\* assert(points_.num_points() > 0). With NDEBUG the assert is compiled out.
ConstructorBody ==
  /\ phase = "building"
  /\ stack = <<>>
  /\ root_' = ret
  /\ \/ N > 0 /\ phase' = "built"
     \/ ~(N > 0) /\ phase' = "aborted"
     \/ ~(N > 0) /\ phase' = "built"
  /\ UNCHANGED <<points_, max_leaf_size, nodes_, indices_, stack, ret>>
  /\ UNCHANGED queryVars

NextBuild ==
  \/ MakeTree
  \/ SplitIndicesLeaf
  \/ SplitIndicesBranch
  \/ SplitIndicesLeft
  \/ SplitIndicesRight
  \/ ConstructorBody

SpecBuild == Init /\ [][NextBuild]_vars

\* ------------------------------------------------------------ the visitors
\* std::vector::resize(len): new elements are value-initialised pairs.
Resize(vec, len) ==
  IF len <= Len(vec) THEN SubSeq(vec, 1, len)
  ELSE vec \o [i \in 1..(len - Len(vec)) |-> Pair(0, 0)]

\* internal::SearchNn::SearchNn(); idx_ is left unassigned.
SearchNnCtor == [kind |-> "nn", idx_ |-> Uninit, min_ |-> ScalarMax]

\* internal::SearchKnn::SearchKnn(k, knn): what it leaves in *knn (k >= 1).
SearchKnnCtor(k, vec) == [Resize(vec, k) EXCEPT ![(k - 1) + 1].second = ScalarMax]

\* Mutant of SearchKnnDtor: the vector keeps its k elements.
SearchKnnDtor_NoResize(vis, vec) == vec

\* internal::SearchKnn::~SearchKnn(): what it leaves in *knn.
SearchKnnDtor(vis, vec) == Resize(vec, vis.count_)

\* Mutant of SearchRadiusCtor: the vector is not cleared.
SearchRadiusCtor_NoClear(vec) == vec

\* internal::SearchRadius::SearchRadius(radius, n): what it leaves in *n.
SearchRadiusCtor(vec) == <<>>

\* The loop of SearchKnn::InsertSorted: [vec, i] when it is left.
RECURSIVE InsertSortedLoop(_, _, _)
InsertSortedLoop(vec, i, d) ==
  IF i > 0
  THEN IF At(vec, i - 1).second > d
       THEN InsertSortedLoop([vec EXCEPT ![i + 1] = At(vec, i - 1)], i - 1, d)
       ELSE [vec |-> vec, i |-> i]
  ELSE [vec |-> vec, i |-> i]

\* internal::SearchKnn::InsertSorted(idx, d), given count_.
InsertSorted(vec, count, idx, d) ==
  LET r == InsertSortedLoop(vec, count - 1, d)
  IN [r.vec EXCEPT ![r.i + 1] = Pair(idx, d)]

\* V::max() of the three visitors.
VisitorMax(vis, knnv) ==
  CASE vis.kind = "nn" -> vis.min_
    [] vis.kind = "knn" -> At(knnv, vis.k_ - 1).second
    [] vis.kind = "radius" -> vis.radius_

\* V::operator()(idx, d): the visitor afterwards.
VisitorVisit(vis, idx, d) ==
  CASE vis.kind = "nn" -> [vis EXCEPT !.idx_ = idx, !.min_ = d]
    [] vis.kind = "knn" ->
         IF vis.count_ < vis.k_ THEN [vis EXCEPT !.count_ = vis.count_ + 1] ELSE vis
    [] vis.kind = "radius" -> vis

\* V::operator()(idx, d): the caller's k-nearest vector afterwards.
VisitKnn(vis, knnv, idx, d) ==
  IF vis.kind = "knn"
  THEN InsertSorted(knnv, VisitorVisit(vis, idx, d).count_, idx, d)
  ELSE knnv

\* V::operator()(idx, d): the caller's radius vector afterwards.
VisitRadius(vis, nv, idx, d) ==
  IF vis.kind = "radius" THEN Append(nv, Pair(idx, d)) ELSE nv

\* ------------------------------------------------------------ the traversal
TFrame(node) == [node |-> node, pc |-> "entry", i |-> 0, max |-> 0]

\* Mutant of LeftFirst: the comparison is inverted.
LeftFirst_Inverted(v, split) == v > split

\* if (v <= node->data.branch.split): the left child is searched first.
LeftFirst(v, split) == v <= split

\* if (visitor->max() > d * d): the other child is searched too.
SearchOther(bound, d) == bound > d * d

\* if (max > d): the leaf reports the point; max was read before the loop.
LeafReports(max, d) == max > d

CanQuery == phase = "built"

\* What the caller's vector may hold when it is handed to a search.
PriorContents == {<<>>, <<Pair(0, 0), Pair(0, 0)>>, <<Pair(1, 1), Pair(2, 1), Pair(0, 3)>>}

StartQuery(pt) ==
  /\ phase' = "query"
  /\ p' = pt
  /\ tstack' = <<TFrame(root_)>>
  /\ result' = None
  /\ report' = None
  /\ pruned' = None
  /\ UNCHANGED buildVars

\* KdTree::SearchNn(p), up to the recursive call.
SearchNnBegin ==
  /\ CanQuery
  /\ \E pt \in QueryPoint :
       /\ visitor' = SearchNnCtor
       /\ StartQuery(pt)
  /\ UNCHANGED <<knn, n>>

\* KdTree::SearchKnn(p, k, knn), up to the recursive call. With k = 0 the
\* visitor's constructor writes knn_[k_ - 1] of an empty vector.
SearchKnnBegin ==
  /\ CanQuery
  /\ \E pt \in QueryPoint, k \in 0..MaxK, vec \in PriorContents :
       IF k >= 1
       THEN /\ visitor' = [kind |-> "knn", k_ |-> k, count_ |-> 0]
            /\ knn' = SearchKnnCtor(k, vec)
            /\ StartQuery(pt)
            /\ UNCHANGED n
       ELSE /\ phase' = "ub"
            /\ visitor' = [kind |-> "knn", k_ |-> k, count_ |-> 0]
            /\ knn' = Resize(vec, k)
            /\ p' = pt
            /\ UNCHANGED <<n, tstack, result, report, pruned>>
            /\ UNCHANGED buildVars

\* KdTree::SearchRadius(p, radius, n), up to the recursive call.
SearchRadiusBegin ==
  /\ CanQuery
  /\ \E pt \in QueryPoint, radius \in 0..MaxRadius, vec \in PriorContents :
       /\ visitor' = [kind |-> "radius", radius_ |-> radius]
       /\ n' = SearchRadiusCtor(vec)
       /\ StartQuery(pt)
  /\ UNCHANGED knn

\* SearchNn(p, node, visitor) at a branch: the child on the query's side is
\* searched first.
VisitBranch ==
  /\ phase = "query"
  /\ tstack # <<>>
  /\ Top(tstack).pc = "entry"
  /\ IsBranch(nodes_[Top(tstack).node])
  /\ LET f == Top(tstack)
         node == nodes_[f.node]
         v == QCoord(p, node.data.dim)
         first == IF LeftFirst(v, node.data.split) THEN node.left ELSE node.right
     IN tstack' = Append(SetTop(tstack, [f EXCEPT !.pc = "other"]), TFrame(first))
  /\ report' = None
  /\ pruned' = None
  /\ UNCHANGED <<phase, p, visitor, knn, n, result>>
  /\ UNCHANGED buildVars

\* SearchNn at a branch, the first child done: the other child is searched
\* or skipped.
VisitOther ==
  /\ phase = "query"
  /\ tstack # <<>>
  /\ Top(tstack).pc = "other"
  /\ LET f == Top(tstack)
         node == nodes_[f.node]
         v == QCoord(p, node.data.dim)
         d == v - node.data.split
         other == IF LeftFirst(v, node.data.split) THEN node.right ELSE node.left
         bound == VisitorMax(visitor, knn)
     IN \/ /\ SearchOther(bound, d)
           /\ tstack' = SetTop(tstack, TFrame(other))
           /\ pruned' = None
        \/ /\ ~SearchOther(bound, d)
           /\ tstack' = Pop(tstack)
           /\ pruned' = [node |-> other, bound |-> bound]
  /\ report' = None
  /\ UNCHANGED <<phase, p, visitor, knn, n, result>>
  /\ UNCHANGED buildVars

\* SearchNn at a leaf: Scalar const max = visitor->max(), once, before the
\* loop.
VisitLeaf ==
  /\ phase = "query"
  /\ tstack # <<>>
  /\ Top(tstack).pc = "entry"
  /\ ~IsBranch(nodes_[Top(tstack).node])
  /\ LET f == Top(tstack)
         node == nodes_[f.node]
     IN tstack' = SetTop(tstack, [f EXCEPT !.pc = "leaf",
                                           !.i = node.data.begin_idx,
                                           !.max = VisitorMax(visitor, knn)])
  /\ report' = None
  /\ pruned' = None
  /\ UNCHANGED <<phase, p, visitor, knn, n, result>>
  /\ UNCHANGED buildVars

\* One iteration of the leaf's loop.
LeafLoop ==
  /\ phase = "query"
  /\ tstack # <<>>
  /\ Top(tstack).pc = "leaf"
  /\ Top(tstack).i < nodes_[Top(tstack).node].data.end_idx
  /\ LET f == Top(tstack)
         idx == At(indices_, f.i)
         d == MetricL2(p, idx)
         current == VisitorMax(visitor, knn)
     IN /\ IF LeafReports(f.max, d)
           THEN /\ visitor' = VisitorVisit(visitor, idx, d)
                /\ knn' = VisitKnn(visitor, knn, idx, d)
                /\ n' = VisitRadius(visitor, n, idx, d)
                /\ report' = [idx |-> idx, d |-> d, bound |-> current]
           ELSE /\ report' = None
                /\ UNCHANGED <<visitor, knn, n>>
        /\ tstack' = SetTop(tstack, [f EXCEPT !.i = f.i + 1])
  /\ pruned' = None
  /\ UNCHANGED <<phase, p, result>>
  /\ UNCHANGED buildVars

\* The leaf's loop is left and SearchNn(p, node, visitor) returns.
LeafReturn ==
  /\ phase = "query"
  /\ tstack # <<>>
  /\ Top(tstack).pc = "leaf"
  /\ ~(Top(tstack).i < nodes_[Top(tstack).node].data.end_idx)
  /\ tstack' = Pop(tstack)
  /\ report' = None
  /\ pruned' = None
  /\ UNCHANGED <<phase, p, visitor, knn, n, result>>
  /\ UNCHANGED buildVars

\* The public search returns: SearchNn(p) returns v.nearest(), SearchKnn
\* destroys its visitor, SearchRadius is done.
SearchReturn ==
  /\ phase = "query"
  /\ tstack = <<>>
  /\ phase' = "done"
  /\ result' = IF visitor.kind = "nn" THEN Pair(visitor.idx_, visitor.min_) ELSE None
  /\ knn' = IF visitor.kind = "knn" THEN SearchKnnDtor(visitor, knn) ELSE knn
  /\ report' = None
  /\ pruned' = None
  /\ UNCHANGED <<p, visitor, n, tstack>>
  /\ UNCHANGED buildVars

Traverse ==
  \/ VisitBranch
  \/ VisitOther
  \/ VisitLeaf
  \/ LeafLoop
  \/ LeafReturn
  \/ SearchReturn

NextNn == NextBuild \/ SearchNnBegin \/ Traverse
NextKnn == NextBuild \/ SearchKnnBegin \/ Traverse
NextRadius == NextBuild \/ SearchRadiusBegin \/ Traverse
Next == NextBuild \/ SearchNnBegin \/ SearchKnnBegin \/ SearchRadiusBegin \/ Traverse

SpecNn == Init /\ [][NextNn]_vars
SpecKnn == Init /\ [][NextKnn]_vars
SpecRadius == Init /\ [][NextRadius]_vars
Spec == Init /\ [][Next]_vars

SpecBuildFair == Init /\ [][NextBuild]_vars /\ WF_vars(NextBuild)

\* ------------------------------------------------- what the claims speak of
\* The constructor's preconditions.
ValidArgs == N >= 1 /\ max_leaf_size >= 1

\* The constructor has returned.
Constructed == phase \in {"built", "query", "done", "ub"}

Ids == 0..(N - 1)

\* The squared Euclidean distance of point id to pt, by brute force.
SqDist(pt, id) ==
  (pt[1] - points_[id + 1][1]) * (pt[1] - points_[id + 1][1])
  + (pt[2] - points_[id + 1][2]) * (pt[2] - points_[id + 1][2])

MinDist == CHOOSE m \in {SqDist(p, id) : id \in Ids} :
             \A id \in Ids : m <= SqDist(p, id)

\* The node pointers of the subtree at ptr, and those of them that are leaves.
RECURSIVE SubtreeNodes(_)
SubtreeNodes(ptr) ==
  IF IsBranch(nodes_[ptr])
  THEN {ptr} \cup SubtreeNodes(nodes_[ptr].left) \cup SubtreeNodes(nodes_[ptr].right)
  ELSE {ptr}

SubtreeLeaves(ptr) == {l \in SubtreeNodes(ptr) : ~IsBranch(nodes_[l])}

LeafPositions(l) == nodes_[l].data.begin_idx..(nodes_[l].data.end_idx - 1)

\* The point identifiers reachable under ptr.
SubtreeIds(ptr) ==
  {At(indices_, i) : i \in UNION {LeafPositions(l) : l \in SubtreeLeaves(ptr)}}

Branches == {b \in SubtreeNodes(root_) : IsBranch(nodes_[b])}

Sorted(vec) == \A i \in 1..(Len(vec) - 1) : vec[i].second <= vec[i + 1].second

Occurrences(vec, t) == Cardinality({i \in 1..Len(vec) : vec[i].second = t})

\* How often distance t occurs among the k smallest distances of the point set.
AmongSmallest(k, t) ==
  LET less == Cardinality({id \in Ids : SqDist(p, id) < t})
      same == Cardinality({id \in Ids : SqDist(p, id) = t})
      room == IF k - less > 0 THEN k - less ELSE 0
  IN IF same < room THEN same ELSE room

NnDone == phase = "done" /\ visitor.kind = "nn"
KnnDone == phase = "done" /\ visitor.kind = "knn"
RadiusDone == phase = "done" /\ visitor.kind = "radius"

\* ------------------------------------------------------------------ claims

\* C1: for N >= 1 and max_leaf_size >= 1, SearchNn(p) returns the minimum
\* squared distance over all points, and the identifier of a point at that
\* distance.
C1_NearestIsMinimum ==
  (NnDone /\ ValidArgs) =>
    /\ result.second = MinDist
    /\ result.first \in Ids
    /\ SqDist(p, result.first) = MinDist

\* C2: for 1 <= k <= N, SearchKnn leaves exactly k pairs, in non-decreasing
\* order of distance, whose distances are the k smallest of the point set.
C2_KSmallestSorted ==
  (KnnDone /\ ValidArgs /\ visitor.k_ <= N) =>
    /\ Len(knn) = visitor.k_
    /\ Sorted(knn)
    /\ \A t \in {SqDist(p, id) : id \in Ids} \cup {knn[i].second : i \in 1..Len(knn)} :
         Occurrences(knn, t) = AmongSmallest(visitor.k_, t)

\* C3: SearchRadius leaves exactly the points whose squared distance is
\* strictly less than the radius, each once and with its distance, whatever
\* the vector held before.
C3_RadiusExact ==
  (RadiusDone /\ ValidArgs) =>
    /\ \A id \in Ids :
         Cardinality({i \in 1..Len(n) : n[i].first = id}) =
           IF SqDist(p, id) < visitor.radius_ THEN 1 ELSE 0
    /\ \A i \in 1..Len(n) :
         n[i].first \in Ids /\ n[i].second = SqDist(p, n[i].first)

C3_Witness ==
  /\ RadiusDone /\ ValidArgs
  /\ N = 4
  /\ max_leaf_size = 1
  /\ Len(n) = 2
  /\ \E id \in Ids : SqDist(p, id) = visitor.radius_

\* C4: for k > N, SearchKnn leaves exactly N pairs: every point once, with
\* its distance, in non-decreasing order of distance.
C4_AllPointsWhenKExceedsN ==
  (KnnDone /\ ValidArgs /\ visitor.k_ > N) =>
    /\ Len(knn) = N
    /\ {knn[i].first : i \in 1..Len(knn)} = Ids
    /\ \A i \in 1..Len(knn) : knn[i].second = SqDist(p, knn[i].first)
    /\ Sorted(knn)

C4_Witness ==
  /\ KnnDone /\ ValidArgs
  /\ visitor.k_ > N
  /\ N = 4
  /\ max_leaf_size = 2
  /\ Len(knn) = 4
  /\ knn[1].second < knn[2].second
  /\ knn[2].second < knn[4].second
  /\ knn[1].first # 0

\* C5, as claimed: in a built tree every point under a branch's left child has
\* coordinate[dim] <= split and every point under its right child has
\* coordinate[dim] > split.
C5_RightStrictlyGreater ==
  (Constructed /\ ValidArgs) =>
    \A b \in Branches :
      /\ \A id \in SubtreeIds(nodes_[b].left) :
           Coord(id, nodes_[b].data.dim) <= nodes_[b].data.split
      /\ \A id \in SubtreeIds(nodes_[b].right) :
           Coord(id, nodes_[b].data.dim) > nodes_[b].data.split

\* C5, amended: in a built tree every point under a branch's left child has
\* coordinate[dim] <= split and every point under its right child has
\* coordinate[dim] >= split.
C5_PartitionOrder ==
  (Constructed /\ ValidArgs) =>
    \A b \in Branches :
      /\ \A id \in SubtreeIds(nodes_[b].left) :
           Coord(id, nodes_[b].data.dim) <= nodes_[b].data.split
      /\ \A id \in SubtreeIds(nodes_[b].right) :
           Coord(id, nodes_[b].data.dim) >= nodes_[b].data.split

C5_Witness ==
  /\ phase = "built" /\ ValidArgs
  /\ Cardinality(Branches) = 3
  /\ \E b \in Branches :
       /\ nodes_[b].data.dim = 0
       /\ \E id \in SubtreeIds(nodes_[b].left) :
            Coord(id, nodes_[b].data.dim) = nodes_[b].data.split
       /\ \E id \in SubtreeIds(nodes_[b].right) :
            Coord(id, nodes_[b].data.dim) = nodes_[b].data.split
       /\ \E id \in SubtreeIds(nodes_[b].right) :
            Coord(id, nodes_[b].data.dim) > nodes_[b].data.split
  /\ \E b \in Branches : nodes_[b].data.dim = 1

\* C6: after construction the index permutation is a permutation of
\* 0..N-1 and the leaf ranges are disjoint and cover the positions 0..N-1,
\* so every identifier is in exactly one leaf range, once.
C6_LeafRangesPartition ==
  (Constructed /\ ValidArgs) =>
    /\ Len(indices_) = N
    /\ {At(indices_, i) : i \in 0..(N - 1)} = Ids
    /\ \A l \in SubtreeLeaves(root_) :
         0 <= nodes_[l].data.begin_idx /\ nodes_[l].data.end_idx <= N
    /\ \A pos \in 0..(N - 1) :
         Cardinality({l \in SubtreeLeaves(root_) : pos \in LeafPositions(l)}) = 1
    /\ \A id \in Ids :
         Cardinality({l \in SubtreeLeaves(root_) : id \in SubtreeIds(l)}) = 1

C6_Witness ==
  /\ phase = "built" /\ ValidArgs
  /\ N = 4
  /\ Cardinality(SubtreeLeaves(root_)) = 4
  /\ indices_ = <<3, 1, 0, 2>>

\* C7: a violated precondition is rejected at entry: with no points or
\* max_leaf_size < 1 the constructor builds nothing and does not return an
\* index, and SearchKnn with k = 0 does not access knn_[k - 1].
C7_PreconditionsRejected ==
  /\ ~ValidArgs => (nodes_ = <<>> /\ ~Constructed)
  /\ phase # "ub"

\* C8: for N >= 1 and max_leaf_size >= 1 construction terminates, never
\* recurses on an empty range, and in the built tree every leaf holds between
\* 1 and max_leaf_size identifiers and every node has no child or two.
C8_Shape ==
  ValidArgs =>
    /\ \A i \in 1..Len(stack) : stack[i].size >= 1
    /\ Constructed =>
         /\ \A l \in SubtreeLeaves(root_) :
              /\ IsLeaf(nodes_[l])
              /\ nodes_[l].data.end_idx - nodes_[l].data.begin_idx >= 1
              /\ nodes_[l].data.end_idx - nodes_[l].data.begin_idx <= max_leaf_size
         /\ \A i \in 1..Len(nodes_) :
              /\ IsBranch(nodes_[i]) \/ IsLeaf(nodes_[i])
              /\ nodes_[i].left \in 0..Len(nodes_)
              /\ nodes_[i].right \in 0..Len(nodes_)
              /\ i \in SubtreeNodes(root_)

C8_TerminatesWellShaped == [](C8_Shape) /\ (ValidArgs => <>(phase = "built"))

C8_Witness ==
  /\ phase = "built" /\ ValidArgs
  /\ max_leaf_size = 2
  /\ Len(nodes_) = 3
  /\ \E l \in SubtreeLeaves(root_) :
       nodes_[l].data.end_idx - nodes_[l].data.begin_idx = 2
  /\ \E l \in SubtreeLeaves(root_) :
       nodes_[l].data.end_idx - nodes_[l].data.begin_idx = 1

\* C9: a leaf reports a point only if its distance is strictly less than the
\* accumulator's bound as it stands at that report.
C9_ReportBelowCurrentBound ==
  (report # None /\ ValidArgs) => report.d < report.bound

\* C10: when a branch skips its other child, no point under that child is
\* strictly closer to the query than the accumulator's bound at that moment.
C10_PruningSound ==
  (pruned # None /\ ValidArgs) =>
    \A id \in SubtreeIds(pruned.node) : SqDist(p, id) >= pruned.bound

C10_Witness ==
  /\ pruned # None /\ ValidArgs
  /\ visitor.kind = "knn"
  /\ Cardinality(SubtreeIds(pruned.node)) = 2
  /\ \E id \in SubtreeIds(pruned.node) : SqDist(p, id) = pruned.bound
  /\ \E b \in Branches :
       /\ pruned.node \in {nodes_[b].left, nodes_[b].right}
       /\ \E id \in SubtreeIds(pruned.node) :
            Coord(id, nodes_[b].data.dim) = nodes_[b].data.split

====
